---- MODULE Spec2Model ----
(***************************************************************************)
(* A model of elections.py: the line-style helper `line`, the method-of-   *)
(* moments conversion `alpha_beta`, the estimator `winning_probabilities`  *)
(* and the four `varying_*` sweep drivers that call it.                    *)
(*                                                                         *)
(* Real numbers are exact rationals <<numerator, denominator>> in lowest   *)
(* terms with a positive denominator, so rounding of IEEE doubles is not   *)
(* modelled.  The Beta CDF at 1/2 is evaluated exactly for whole-number    *)
(* shape parameters (binomial identity); the input grids below are chosen  *)
(* so that every valid prior yields whole-number shape parameters.         *)
(***************************************************************************)
EXTENDS Integers, Sequences, FiniteSets, TLC

(* ------------------------------ bounds -------------------------------- *)
\* longest fractions_in_favor sequence handed to winning_probabilities
MaxLen == 2
\* largest number of curves (swept values) one varying_* call draws
MaxTotal == 5

(* --------------------------- exact rationals -------------------------- *)
Abs(n) == IF n < 0 THEN -n ELSE n

RECURSIVE GCD(_, _)
GCD(a, b) == IF b = 0 THEN a ELSE GCD(b, a % b)

\* the rational n/d (d # 0) in lowest terms with positive denominator
Rat(n, d) ==
    LET g == GCD(Abs(n), Abs(d))
        s == IF d < 0 THEN -1 ELSE 1
    IN  <<(s * n) \div g, (s * d) \div g>>

Zero == <<0, 1>>
One == <<1, 1>>
Half == <<1, 2>>

RAdd(x, y) == Rat(x[1] * y[2] + y[1] * x[2], x[2] * y[2])
RSub(x, y) == Rat(x[1] * y[2] - y[1] * x[2], x[2] * y[2])
RMul(x, y) == Rat(x[1] * y[1], x[2] * y[2])
RDiv(x, y) == Rat(x[1] * y[2], x[2] * y[1])
RPos(x) == x[1] > 0
RNeg(x) == x[1] < 0
\* comparisons over the least common denominator
LCD(x, y) == (x[2] \div GCD(x[2], y[2])) * y[2]
RLt(x, y) == x[1] * (LCD(x, y) \div x[2]) < y[1] * (LCD(x, y) \div y[2])
RLeq(x, y) == x[1] * (LCD(x, y) \div x[2]) <= y[1] * (LCD(x, y) \div y[2])
IsWhole(x) == x[2] = 1
\* a Python int as a real
FromInt(n) == <<n, 1>>

(* ------------------------------- line --------------------------------- *)
\* line(i, total): the matplotlib style of curve i out of total curves;
\* 'b-' is the LOW role, 'g-' the MID role, 'r-' the HIGH role.
\* `/` is true division, .5 is the exact double 1/2.
\* a slip: floor division for the median, as `/` on ints once behaved
line_floor_median(i, total) ==
    IF total = 2
    THEN IF i # 0 THEN "r-" ELSE "b-"
    ELSE LET median == FromInt((total - 1) \div 2)
         IN  IF RLt(FromInt(i), RSub(median, Half)) THEN "b-"
             ELSE IF RLt(RAdd(median, Half), FromInt(i)) THEN "r-"
             ELSE "g-"

\* a slip: the two-curve special case left out
line_no_pair_case(i, total) ==
    LET median == RDiv(FromInt(total - 1), FromInt(2))
    IN  IF RLt(FromInt(i), RSub(median, Half)) THEN "b-"
        ELSE IF RLt(RAdd(median, Half), FromInt(i)) THEN "r-"
        ELSE "g-"

line(i, total) ==
    IF total = 2
    THEN IF i # 0 THEN "r-" ELSE "b-"
    ELSE LET median == RDiv(FromInt(total - 1), FromInt(2))
         IN  IF RLt(FromInt(i), RSub(median, Half)) THEN "b-"
             ELSE IF RLt(RAdd(median, Half), FromInt(i)) THEN "r-"
             ELSE "g-"

(* ----------------------------- alpha_beta ----------------------------- *)
\* alpha = mu ** 2 * ((1 - mu) / sigma ** 2 - 1 / mu)
alpha_of(mu, sigma) ==
    RMul(RMul(mu, mu),
         RSub(RDiv(RSub(One, mu), RMul(sigma, sigma)), RDiv(One, mu)))

\* a slip: the subtraction the wrong way round
beta_of_sign_slip(alpha, mu) == RMul(alpha, RSub(One, RDiv(One, mu)))

\* a slip: the "- 1" left out
beta_of_no_minus_one(alpha, mu) == RMul(alpha, RDiv(One, mu))

\* beta = alpha * (1 / mu - 1)
beta_of(alpha, mu) == RMul(alpha, RSub(RDiv(One, mu), One))

\* alpha_beta(mu, sigma) for mu # 0 and sigma # 0: the pair it returns.
\* No validity check is made: the pair is returned whatever its signs.
alpha_beta(mu, sigma) ==
    LET alpha == alpha_of(mu, sigma)
        beta == beta_of(alpha, mu)
    IN  <<alpha, beta>>

\* the divisions of alpha_beta raise ZeroDivisionError on a zero divisor
alpha_beta_raises(mu, sigma) == sigma = Zero \/ mu = Zero

(* --------------------- scipy.stats.beta(a, b).cdf(.5) ----------------- *)
\* A probability value is a record: kind "num" carries the exact value in
\* val; kind "nan" is the NaN scipy returns for shape parameters that fail
\* its argument check (a <= 0 or b <= 0); kinds "cdf" and "sf" stand for the
\* finite values I_{1/2}(a, b) and 1 - I_{1/2}(a, b) with positive shape
\* parameters that are not whole numbers, which are not evaluated here.
Num(v) == [kind |-> "num", val |-> v, a |-> Zero, b |-> Zero]
NaN == [kind |-> "nan", val |-> Zero, a |-> Zero, b |-> Zero]
Unevaluated(k, a, b) == [kind |-> k, val |-> Zero, a |-> a, b |-> b]

RECURSIVE Choose(_, _)
Choose(n, k) == IF k = 0 THEN 1 ELSE (Choose(n, k - 1) * (n - k + 1)) \div k

RECURSIVE Pow2(_)
Pow2(n) == IF n = 0 THEN 1 ELSE 2 * Pow2(n - 1)

RECURSIVE BinomialTail(_, _)
\* the number of subsets of an n-set with at least j elements
BinomialTail(n, j) == IF j > n THEN 0 ELSE Choose(n, j) + BinomialTail(n, j + 1)

\* beta_dist.cdf(.5) for beta_dist = scipy.stats.beta(a, b): for whole
\* a, b >= 1 the regularized incomplete beta function I_{1/2}(a, b) is
\* P(Bin(a + b - 1, 1/2) >= a).
beta_cdf_half(a, b) ==
    IF ~RPos(a) \/ ~RPos(b) THEN NaN
    ELSE IF IsWhole(a) /\ IsWhole(b)
         THEN Num(Rat(BinomialTail(a[1] + b[1] - 1, a[1]), Pow2(a[1] + b[1] - 1)))
         ELSE Unevaluated("cdf", a, b)

\* a slip: the CDF itself returned instead of its complement
OneMinus_dropped(p) == p

\* 1 - p in floating point: NaN stays NaN
OneMinus(p) ==
    IF p.kind = "num" THEN Num(RSub(One, p.val))
    ELSE IF p.kind = "cdf" THEN Unevaluated("sf", p.a, p.b)
    ELSE p

(* ------------------------------- state -------------------------------- *)
VARIABLES
    pc,                  \* where control is: "sweep", "call", "loop",
                         \*   "returned", "raised", "done"
    prior_mu, prior_sigma, total_votes, fraction_counted,
    fractions_in_favor,  \* the arguments of winning_probabilities
    prior_alpha, prior_beta, counted_votes,
    n_done,              \* how many elements the for loop has consumed
    votes_in_favor, votes_against,
    beta_dist,           \* <<a, b>> of the last scipy.stats.beta(a, b)
    winning_ps,          \* the list being built
    returned,            \* the list handed back to the caller
    axis,                \* which varying_* function runs ("none": a direct call)
    values,              \* the swept list (prior_mus, prior_sigmas, ...)
    i,                   \* enumerate index of the sweep loop
    handles              \* the plotted lines

args == <<prior_mu, prior_sigma, total_votes, fraction_counted, fractions_in_favor>>
locals == <<prior_alpha, prior_beta, counted_votes, n_done, votes_in_favor,
            votes_against, beta_dist, winning_ps>>
sweep == <<axis, values, i, handles>>
vars == <<pc, args, locals, returned, sweep>>

(* ---------------------------- input grids ----------------------------- *)
\* priors (mu, sigma): <<2/5, 1/5>> -> (2, 3), <<1/2, 1/6>> -> (4, 4),
\* <<3/5, 1/5>> -> (3, 2), <<1/5, 1/10>> -> (3, 12), <<4/5, 1/10>> -> (12, 3)
\* are feasible; <<1/2, 1/2>> -> (0, 0), <<2/5, 1>> and <<1/2, 9/10>> have
\* sigma^2 >= mu (1 - mu); <<1/2, 0>> divides by zero.
Priors == { <<<<2, 5>>, <<1, 5>>>>, <<<<1, 2>>, <<1, 6>>>>, <<<<3, 5>>, <<1, 5>>>>,
            <<<<1, 5>>, <<1, 10>>>>, <<<<4, 5>>, <<1, 10>>>>,
            <<<<1, 2>>, <<1, 2>>>>, <<<<2, 5>>, <<1, 1>>>>, <<<<1, 2>>, <<9, 10>>>>,
            <<<<1, 2>>, <<0, 1>>>> }
TotalVotes == { FromInt(-8), FromInt(0), FromInt(8) }
FractionsCounted == { <<-1, 2>>, <<0, 1>>, <<1, 2>>, <<1, 1>>, <<3, 2>> }
Fractions == { <<-1, 4>>, <<0, 1>>, <<1, 4>>, <<1, 2>>, <<3, 4>>, <<1, 1>>, <<5, 4>> }
FractionLists == UNION { [1..n -> Fractions] : n \in 0..MaxLen }

\* the arguments the sweep drivers hold fixed, and the values they sweep
default_prior_mu == <<2, 5>>
default_prior_sigma == <<1, 5>>
default_total_votes == FromInt(8)
default_fraction_counted == <<1, 2>>
default_fractions_in_favor == << <<1, 4>>, <<1, 2>>, <<3, 4>> >>
Axes == {"mu", "sigma", "total_votes", "fraction_counted"}
AxisValues(ax) ==
    CASE ax = "mu" -> { <<2, 5>>, <<3, 5>> }
      [] ax = "sigma" -> { <<1, 5>>, <<1, 1>>, <<0, 1>> }
      [] ax = "total_votes" -> { FromInt(8), FromInt(16) }
      [] ax = "fraction_counted" -> { <<1, 2>>, <<1, 1>> }
SweptLists(ax) == UNION { [1..n -> AxisValues(ax)] : n \in 1..MaxTotal }

(* ------------------------------- Init --------------------------------- *)
NoLocals ==
    /\ prior_alpha = Zero /\ prior_beta = Zero /\ counted_votes = Zero
    /\ n_done = 0 /\ votes_in_favor = Zero /\ votes_against = Zero
    /\ beta_dist = <<Zero, Zero>> /\ winning_ps = <<>> /\ returned = <<>>

\* a direct call of winning_probabilities with arguments from the grids
Init ==
    /\ pc = "call"
    /\ \E p \in Priors : prior_mu = p[1] /\ prior_sigma = p[2]
    /\ total_votes \in TotalVotes
    /\ fraction_counted \in FractionsCounted
    /\ fractions_in_favor \in FractionLists
    /\ NoLocals
    /\ axis = "none" /\ values = <<>> /\ i = 0 /\ handles = <<>>

\* entry of one of varying_mu, varying_sigma, varying_total_votes,
\* varying_fraction_counted with its swept list
InitSweep ==
    /\ pc = "sweep"
    /\ axis \in Axes
    /\ values \in SweptLists(axis)
    /\ prior_mu = default_prior_mu /\ prior_sigma = default_prior_sigma
    /\ total_votes = default_total_votes
    /\ fraction_counted = default_fraction_counted
    /\ fractions_in_favor = default_fractions_in_favor
    /\ NoLocals
    /\ i = 0 /\ handles = <<>>

(* ----------------------- winning_probabilities ------------------------ *)
\* a slip: the uncounted share taken for the counted one
counted_votes_of_uncounted(total, fraction) == RMul(total, RSub(One, fraction))

\* counted_votes = total_votes * fraction_counted
counted_votes_of(total, fraction) == RMul(total, fraction)

\* votes_in_favor = counted_votes * fraction_in_favor
votes_in_favor_of(counted, fraction_in_favor) == RMul(counted, fraction_in_favor)

\* a slip: the operands of the subtraction swapped
votes_against_of_swapped(counted, in_favor) == RSub(in_favor, counted)

\* votes_against = counted_votes - votes_in_favor
votes_against_of(counted, in_favor) == RSub(counted, in_favor)

\* scipy.stats.beta(prior_alpha + votes_in_favor, prior_beta + votes_against)
posterior(alpha, beta, in_favor, against) == <<RAdd(alpha, in_favor), RAdd(beta, against)>>

\* a slip: the new probability put at the front of the list
append_front(ps, p) == <<p>> \o ps

\* winning_ps.append(p)
append(ps, p) == Append(ps, p)

\* lines 38-41: the prior's shape parameters, the counted votes, the empty list
Call ==
    /\ pc = "call"
    /\ ~alpha_beta_raises(prior_mu, prior_sigma)
    /\ prior_alpha' = alpha_beta(prior_mu, prior_sigma)[1]
    /\ prior_beta' = alpha_beta(prior_mu, prior_sigma)[2]
    /\ counted_votes' = counted_votes_of(total_votes, fraction_counted)
    /\ winning_ps' = <<>>
    /\ n_done' = 0
    /\ pc' = "loop"
    /\ UNCHANGED <<args, votes_in_favor, votes_against, beta_dist, returned, sweep>>

\* line 38 when alpha_beta divides by zero: the exception leaves the call
\* (and the sweep driver, which does not catch it)
CallRaises ==
    /\ pc = "call"
    /\ alpha_beta_raises(prior_mu, prior_sigma)
    /\ pc' = "raised"
    /\ UNCHANGED <<args, locals, returned, sweep>>

\* lines 42-47: one iteration of the for loop
Iterate ==
    /\ pc = "loop"
    /\ n_done < Len(fractions_in_favor)
    /\ LET fraction_in_favor == fractions_in_favor[n_done + 1]
           vif == votes_in_favor_of(counted_votes, fraction_in_favor)
           va == votes_against_of(counted_votes, vif)
           dist == posterior(prior_alpha, prior_beta, vif, va)
       IN  /\ votes_in_favor' = vif
           /\ votes_against' = va
           /\ beta_dist' = dist
           /\ winning_ps' = append(winning_ps, OneMinus(beta_cdf_half(dist[1], dist[2])))
    /\ n_done' = n_done + 1
    /\ UNCHANGED <<pc, args, prior_alpha, prior_beta, counted_votes, returned, sweep>>

\* line 49: the loop is exhausted, the list is returned
Return ==
    /\ pc = "loop"
    /\ n_done = Len(fractions_in_favor)
    /\ returned' = winning_ps
    /\ pc' = "returned"
    /\ UNCHANGED <<args, locals, sweep>>

(* ------------------------------ varying_* ----------------------------- *)
\* the for statement of a varying_* function takes the next swept value
\* and calls winning_probabilities with it in the swept position
SweepEnter ==
    /\ pc = "sweep"
    /\ i < Len(values)
    /\ prior_mu' = IF axis = "mu" THEN values[i + 1] ELSE prior_mu
    /\ prior_sigma' = IF axis = "sigma" THEN values[i + 1] ELSE prior_sigma
    /\ total_votes' = IF axis = "total_votes" THEN values[i + 1] ELSE total_votes
    /\ fraction_counted' =
           IF axis = "fraction_counted" THEN values[i + 1] ELSE fraction_counted
    /\ pc' = "call"
    /\ prior_alpha' = Zero /\ prior_beta' = Zero /\ counted_votes' = Zero
    /\ n_done' = 0 /\ votes_in_favor' = Zero /\ votes_against' = Zero
    /\ beta_dist' = <<Zero, Zero>> /\ winning_ps' = <<>> /\ returned' = <<>>
    /\ UNCHANGED <<fractions_in_favor, sweep>>

\* handles.append(plot(fractions_in_favor, winning_ps, line(i, len(...)),
\*                     label=<swept value>)[0])
Plot ==
    /\ pc = "returned"
    /\ axis # "none"
    /\ handles' = Append(handles, [xs |-> fractions_in_favor,
                                   ys |-> returned,
                                   style |-> line(i, Len(values)),
                                   label |-> values[i + 1]])
    /\ i' = i + 1
    /\ pc' = "sweep"
    /\ UNCHANGED <<args, locals, returned, axis, values>>

\* the sweep loop is exhausted: matplotlib.pyplot.legend(handles=handles, ...)
Legend ==
    /\ pc = "sweep"
    /\ i = Len(values)
    /\ pc' = "done"
    /\ UNCHANGED <<args, locals, returned, sweep>>

Next == Call \/ CallRaises \/ Iterate \/ Return
NextSweep == SweepEnter \/ Call \/ CallRaises \/ Iterate \/ Return \/ Plot \/ Legend

Spec == Init /\ [][Next]_vars
SpecSweep == InitSweep /\ [][NextSweep]_vars

(* ============================ properties ============================== *)
InUnit(x) == RLeq(Zero, x) /\ RLeq(x, One)
Past38 == pc \in {"loop", "returned"}

\* mu in (0, 1), sigma > 0 and sigma^2 < mu (1 - mu)
ValidPrior ==
    /\ RPos(prior_mu) /\ RLt(prior_mu, One) /\ RPos(prior_sigma)
    /\ RLt(RMul(prior_sigma, prior_sigma), RMul(prior_mu, RSub(One, prior_mu)))

\* mu in (0, 1), sigma > 0 and sigma^2 >= mu (1 - mu)
InfeasiblePrior ==
    /\ RPos(prior_mu) /\ RLt(prior_mu, One) /\ RPos(prior_sigma)
    /\ RLeq(RMul(prior_mu, RSub(One, prior_mu)), RMul(prior_sigma, prior_sigma))

ValidCount == ~RNeg(total_votes) /\ InUnit(fraction_counted)
AllInUnit(fs) == \A k \in 1..Len(fs) : InUnit(fs[k])

\* model sanity: a feasible prior with in-range inputs on the grids always
\* gives whole shape parameters, so its probabilities are evaluated exactly
ExactOnGrid ==
    (ValidPrior /\ ValidCount /\ AllInUnit(fractions_in_favor))
        => \A k \in 1..Len(winning_ps) : winning_ps[k].kind = "num"

\* C1: for mu in (0,1), sigma > 0 with sigma^2 < mu(1-mu), the pair
\* alpha_beta returns has alpha > 0 and beta > 0.
C1_PositiveShape ==
    (Past38 /\ ValidPrior) => (RPos(prior_alpha) /\ RPos(prior_beta))

C1_Witness ==
    /\ pc = "loop" /\ ValidPrior
    /\ prior_alpha = FromInt(2) /\ prior_beta = FromInt(3)

\* C2: with an infeasible prior (sigma^2 >= mu(1-mu)) alpha_beta fails and
\* returns no value, so winning_probabilities never gets past line 38: it
\* builds no posterior and returns no list.
C2_InfeasiblePriorRejected ==
    InfeasiblePrior => (~Past38 /\ n_done = 0 /\ winning_ps = <<>>)

\* C3: winning_probabilities rejects, before any computation, a
\* fraction_counted outside [0,1], a fraction_in_favor outside [0,1] and a
\* negative total_votes: no posterior is formed, no list is returned.
C3_InvalidInputRejected ==
    (~ValidCount \/ ~AllInUnit(fractions_in_favor))
        => (~Past38 /\ n_done = 0 /\ winning_ps = <<>>)

\* C4: with a feasible prior and no counted votes (fraction_counted = 0 or
\* total_votes = 0) every posterior formed has the prior's shape parameters
\* and every probability is the prior's 1 - CDF(1/2), whatever the
\* fraction in favor.
C4_NoVotesNoUpdate ==
    (Past38 /\ ValidPrior /\ (fraction_counted = Zero \/ total_votes = Zero))
        => /\ n_done > 0 => beta_dist = alpha_beta(prior_mu, prior_sigma)
           /\ \A k \in 1..Len(winning_ps) :
                  /\ winning_ps[k].kind = "num"
                  /\ winning_ps[k] =
                         OneMinus(beta_cdf_half(alpha_beta(prior_mu, prior_sigma)[1],
                                                alpha_beta(prior_mu, prior_sigma)[2]))
           /\ pc = "returned" =>
                  \A k1, k2 \in 1..Len(returned) : returned[k1] = returned[k2]

C4_Witness ==
    /\ pc = "returned" /\ ValidPrior
    /\ fraction_counted = Zero /\ total_votes # Zero
    /\ Len(returned) = 2
    /\ fractions_in_favor[1] # fractions_in_favor[2]
    /\ returned[1].kind = "num" /\ returned[1].val # Half

\* C5: for a feasible prior, total_votes >= 0 and fraction_counted in [0,1]
\* the probability is non-decreasing in the fraction in favor over [0,1].
C5_Monotone ==
    (pc = "returned" /\ ValidPrior /\ ValidCount)
        => \A k1, k2 \in 1..Len(returned) :
               ( /\ InUnit(fractions_in_favor[k1]) /\ InUnit(fractions_in_favor[k2])
                 /\ RLeq(fractions_in_favor[k1], fractions_in_favor[k2]) )
               => /\ returned[k1].kind = "num" /\ returned[k2].kind = "num"
                  /\ RLeq(returned[k1].val, returned[k2].val)

C5_Witness ==
    /\ pc = "returned" /\ ValidPrior /\ ValidCount
    /\ Len(returned) = 2
    /\ fractions_in_favor[1] = <<1, 4>> /\ fractions_in_favor[2] = <<3, 4>>
    /\ returned[1].kind = "num" /\ returned[2].kind = "num"
    /\ RLt(returned[1].val, returned[2].val)

\* C6: for a feasible prior the pair alpha_beta returns has mean mu:
\* alpha / (alpha + beta) = mu, equivalently alpha (1 - mu) = beta mu.
C6_ImpliedMean ==
    (Past38 /\ ValidPrior)
        => /\ RDiv(prior_alpha, RAdd(prior_alpha, prior_beta)) = prior_mu
           /\ RMul(prior_alpha, RSub(One, prior_mu)) = RMul(prior_beta, prior_mu)

C6_Witness ==
    /\ pc = "loop" /\ ValidPrior
    /\ prior_mu = <<3, 5>> /\ prior_alpha = FromInt(3) /\ prior_beta = FromInt(2)

\* the probability winning_probabilities computes from one fraction in favor
ProbabilityOf(f) ==
    LET ab == alpha_beta(prior_mu, prior_sigma)
        c == RMul(total_votes, fraction_counted)
    IN  OneMinus(beta_cdf_half(RAdd(ab[1], RMul(c, f)),
                               RAdd(ab[2], RSub(c, RMul(c, f)))))

\* C7: the returned list has the length of fractions_in_favor, its k-th
\* element is the probability of the k-th input element alone, and the
\* input sequence is never modified.
C7_ElementwiseResult ==
    /\ [](pc = "returned" =>
            /\ Len(returned) = Len(fractions_in_favor)
            /\ \A k \in 1..Len(returned) :
                   returned[k] = ProbabilityOf(fractions_in_favor[k]))
    /\ [][fractions_in_favor' = fractions_in_favor]_vars

C7_Witness ==
    /\ pc = "returned" /\ Len(returned) = 2
    /\ fractions_in_favor[1] = <<3, 4>> /\ fractions_in_favor[2] = <<1, 4>>
    /\ returned[1] # returned[2]

\* the role the classification rule assigns, in whole-number arithmetic
Role(idx, total) ==
    IF total = 2 THEN (IF idx = 0 THEN "b-" ELSE "r-")
    ELSE IF 2 * idx < total - 2 THEN "b-"
    ELSE IF 2 * idx > total THEN "r-"
    ELSE "g-"

Plotted(idx, total, style) ==
    Len(values) = total /\ Len(handles) > idx /\ handles[idx + 1].style = style

\* C8: curve i of total gets LOW ('b-') / HIGH ('r-') for total = 2, and
\* otherwise LOW when i < median - 0.5, HIGH when i > median + 0.5, MID
\* ('g-') in between, with median = (total - 1) / 2; in particular
\* role(0,2) = LOW, role(1,2) = HIGH, role(2,5) = MID, role(0,5) = LOW,
\* role(4,5) = HIGH.
C8_LineRole ==
    /\ \A k \in 1..Len(handles) : handles[k].style = Role(k - 1, Len(values))
    /\ (Len(values) = 2 /\ Len(handles) > 0) => handles[1].style = "b-"
    /\ (Len(values) = 2 /\ Len(handles) > 1) => handles[2].style = "r-"
    /\ (Len(values) = 5 /\ Len(handles) > 2) => handles[3].style = "g-"
    /\ (Len(values) = 5 /\ Len(handles) > 0) => handles[1].style = "b-"
    /\ (Len(values) = 5 /\ Len(handles) > 4) => handles[5].style = "r-"

C8_Witness ==
    /\ pc = "done"
    /\ \/ Plotted(0, 2, "b-") /\ Plotted(1, 2, "r-")
       \/ Plotted(0, 5, "b-") /\ Plotted(2, 5, "g-") /\ Plotted(4, 5, "r-")

\* C9: for total_votes >= 0, fraction_counted in [0,1] and a fraction in
\* favor in [0,1], an iteration has votes_in_favor >= 0, votes_against >= 0,
\* their sum equal to counted_votes = total_votes * fraction_counted, and
\* posterior parameters that sum to alpha + beta + counted_votes and are
\* each at least the prior's.
C9_VoteSplit ==
    (Past38 /\ n_done > 0 /\ ValidCount /\ InUnit(fractions_in_favor[n_done]))
        => /\ ~RNeg(votes_in_favor) /\ ~RNeg(votes_against)
           /\ RAdd(votes_in_favor, votes_against) = counted_votes
           /\ counted_votes = RMul(total_votes, fraction_counted)
           /\ beta_dist = <<RAdd(prior_alpha, votes_in_favor),
                            RAdd(prior_beta, votes_against)>>
           /\ RAdd(beta_dist[1], beta_dist[2]) =
                  RAdd(RAdd(prior_alpha, prior_beta), counted_votes)
           /\ RLeq(prior_alpha, beta_dist[1]) /\ RLeq(prior_beta, beta_dist[2])

C9_Witness ==
    /\ pc = "loop" /\ n_done = 1 /\ ValidCount
    /\ fractions_in_favor[1] = <<1, 4>>
    /\ votes_in_favor = FromInt(2) /\ votes_against = FromInt(6)

Rank(style) == IF style = "b-" THEN 0 ELSE IF style = "g-" THEN 1 ELSE 2

\* C10: over indices 0..total-1 the classification is symmetric under
\* i -> total-1-i (LOW <-> HIGH, MID <-> MID), ordered (LOW before MID
\* before HIGH), and has a MID index exactly when total # 2.
C10_SymmetricOrdered ==
    (pc = "done" /\ Len(handles) = Len(values))
        => LET total == Len(handles)
               st(k) == handles[k].style
           IN  /\ \A k \in 1..total :
                      /\ st(k) = "b-" <=> st(total + 1 - k) = "r-"
                      /\ st(k) = "g-" <=> st(total + 1 - k) = "g-"
               /\ \A k1, k2 \in 1..total : k1 < k2 => Rank(st(k1)) <= Rank(st(k2))
               /\ (\E k \in 1..total : st(k) = "g-") <=> total # 2

C10_Witness ==
    /\ pc = "done" /\ Len(handles) = 4
    /\ handles[1].style = "b-" /\ handles[2].style = "g-"
    /\ handles[3].style = "g-" /\ handles[4].style = "r-"

====
